---- MODULE Spec2Model ----
(***************************************************************************)
(* A model of the binary-tuples codec: Segment::encode, Segment::decode,   *)
(* the byte-string escape codec, the sortable float transform, the         *)
(* variable-length integer codec, and the Tuple builder that owns the      *)
(* encoded buffer.                                                         *)
(*                                                                         *)
(* Representation of the program's values:                                 *)
(*   u8       a number in 0..255                                           *)
(*   Vec<u8>  a sequence of u8                                             *)
(*   i64/u64  four 16-bit limbs, most significant first (two's complement) *)
(*   f32      [s, e, m]: sign bit, 8-bit exponent, 23-bit mantissa         *)
(*   f64      [s, e, m]: sign bit, 11-bit exponent, mantissa as            *)
(*            <<20 high bits, 16 middle bits, 16 low bits>>                *)
(*   String   its UTF-8 bytes                                              *)
(*   Uuid     its 16 bytes                                                 *)
(*   Segment  <<variant name, payload>>                                    *)
(* Indices into slices are 0-based as in the source; At(s, i) reads s[i].  *)
(*                                                                         *)
(* State:                                                                  *)
(*   left, right  two Tuple builders                                       *)
(*   out          what the last call that decodes the left builder gave    *)
(*   stack        the activations of decode_segments of a decode that is   *)
(*                under way, the outermost first                           *)
(***************************************************************************)
EXTENDS Integers, Sequences, FiniteSets, TLC

VARIABLES left, right, out, stack

vars == <<left, right, out, stack>>

(***************************************************************************)
(* constants.rs                                                            *)
(***************************************************************************)
BYTES_CODE == 1
STRING_CODE == 2
NESTED_CODE == 5
INT_ZERO_CODE == 20
INT_NEG_MIN_CODE == INT_ZERO_CODE - 8
INT_NEG_MAX_CODE == INT_ZERO_CODE - 1
INT_POS_MIN_CODE == INT_ZERO_CODE + 1
INT_POS_MAX_CODE == INT_ZERO_CODE + 8
FLOAT_CODE == 32
DOUBLE_CODE == 33
FALSE_CODE == 38
TRUE_CODE == 39
UUID_CODE == 48
NULL == 0
NULL_ESCAPE == 255

\* std::u64::MAX, as limbs
MAX_VALUE == <<65535, 65535, 65535, 65535>>

\* SIZE_LIMITS[n] = (1 << (n * 8)) - 1 for n < 8, u64::MAX for n = 8
SIZE_LIMITS ==
  [n \in 0..8 |->
     CASE n = 0 -> <<0, 0, 0, 0>>
       [] n = 1 -> <<0, 0, 0, 255>>
       [] n = 2 -> <<0, 0, 0, 65535>>
       [] n = 3 -> <<0, 0, 255, 65535>>
       [] n = 4 -> <<0, 0, 65535, 65535>>
       [] n = 5 -> <<0, 255, 65535, 65535>>
       [] n = 6 -> <<0, 65535, 65535, 65535>>
       [] n = 7 -> <<255, 65535, 65535, 65535>>
       [] n = 8 -> MAX_VALUE]

(***************************************************************************)
(* Slices                                                                  *)
(***************************************************************************)
At(s, i) == s[i + 1]

\* &s[from..]
SliceFrom(s, from) == SubSeq(s, from + 1, Len(s))

\* &s[from..to]
Slice(s, from, to) == SubSeq(s, from + 1, to)

(***************************************************************************)
(* 64-bit integers as limbs                                                *)
(***************************************************************************)
LimbBase == 256 * 256

I64_ZERO == <<0, 0, 0, 0>>
I64_MIN == <<32768, 0, 0, 0>>
I64_MAX == <<32767, 65535, 65535, 65535>>

\* a - b modulo 2^64 (limb-wise subtraction with borrow)
Sub64(a, b) ==
  LET d4 == a[4] - b[4]
      w4 == IF d4 < 0 THEN 1 ELSE 0
      d3 == a[3] - b[3] - w4
      w3 == IF d3 < 0 THEN 1 ELSE 0
      d2 == a[2] - b[2] - w3
      w2 == IF d2 < 0 THEN 1 ELSE 0
      d1 == a[1] - b[1] - w2
  IN  <<d1 % LimbBase, d2 % LimbBase, d3 % LimbBase, d4 % LimbBase>>

\* a + b modulo 2^64
Add64(a, b) ==
  LET s4 == a[4] + b[4]
      s3 == a[3] + b[3] + (s4 \div LimbBase)
      s2 == a[2] + b[2] + (s3 \div LimbBase)
      s1 == a[1] + b[1] + (s2 \div LimbBase)
  IN  <<s1 % LimbBase, s2 % LimbBase, s3 % LimbBase, s4 % LimbBase>>

\* -a in two's complement
Neg64(a) == Sub64(I64_ZERO, a)

\* x >> 1 on a u64
Shr1(x) ==
  <<x[1] \div 2,
    (x[1] % 2) * 32768 + (x[2] \div 2),
    (x[2] % 2) * 32768 + (x[3] \div 2),
    (x[3] % 2) * 32768 + (x[4] \div 2)>>

IsNeg64(a) == a[1] >= 32768

\* unsigned a < b
U64Less(a, b) ==
  \E i \in 1..4 : a[i] < b[i] /\ \A j \in 1..(i - 1) : a[j] = b[j]

\* signed a < b
I64Less(a, b) ==
  IF IsNeg64(a) # IsNeg64(b) THEN IsNeg64(a) ELSE U64Less(a, b)

\* BigEndian::write_u64: the eight bytes of a u64, most significant first
write_u64(x) ==
  <<x[1] \div 256, x[1] % 256, x[2] \div 256, x[2] % 256,
    x[3] \div 256, x[3] % 256, x[4] \div 256, x[4] % 256>>

\* BigEndian::read_u64
read_u64(buf) ==
  <<buf[1] * 256 + buf[2], buf[3] * 256 + buf[4],
    buf[5] * 256 + buf[6], buf[7] * 256 + buf[8]>>

\* buf.iter().take_while(|v| **v == 0).count()
RECURSIVE CountLeadingZero(_, _)
CountLeadingZero(buf, i) ==
  IF i < Len(buf) /\ At(buf, i) = 0 THEN CountLeadingZero(buf, i + 1) ELSE i

empty_bytes(buf) == CountLeadingZero(buf, 0)

(***************************************************************************)
(* IEEE-754 floats                                                         *)
(***************************************************************************)
\* BigEndian::write_f32
write_f32(f) ==
  <<f.s * 128 + (f.e \div 2),
    (f.e % 2) * 128 + (f.m \div 65536),
    (f.m \div 256) % 256,
    f.m % 256>>

\* BigEndian::read_f32
read_f32(b) ==
  [s |-> b[1] \div 128,
   e |-> (b[1] % 128) * 2 + (b[2] \div 128),
   m |-> (b[2] % 128) * 65536 + b[3] * 256 + b[4]]

\* BigEndian::write_f64
write_f64(f) ==
  <<f.s * 128 + (f.e \div 16),
    (f.e % 16) * 16 + (f.m[1] \div 65536),
    (f.m[1] \div 256) % 256,
    f.m[1] % 256,
    f.m[2] \div 256, f.m[2] % 256,
    f.m[3] \div 256, f.m[3] % 256>>

\* BigEndian::read_f64
read_f64(b) ==
  [s |-> b[1] \div 128,
   e |-> (b[1] % 128) * 16 + (b[2] \div 16),
   m |-> <<(b[2] % 16) * 65536 + b[3] * 256 + b[4],
           b[5] * 256 + b[6],
           b[7] * 256 + b[8]>>]

\* b ^ 0xff
XorFF(b) == 255 - b

\* b ^ 0x80
Xor80(b) == IF b >= 128 THEN b - 128 ELSE b + 128

\* a variant of encode_sortable_float that flips only the sign bit
encode_sortable_float_SignOnly(bytes) == [bytes EXCEPT ![1] = Xor80(bytes[1])]

\* utils.rs encode_sortable_float
encode_sortable_float(bytes) ==
  IF bytes[1] >= 128
    THEN [i \in 1..Len(bytes) |-> XorFF(bytes[i])]
    ELSE [bytes EXCEPT ![1] = Xor80(bytes[1])]

\* utils.rs decode_sortable_float
decode_sortable_float(bytes) ==
  IF bytes[1] < 128
    THEN [i \in 1..Len(bytes) |-> XorFF(bytes[i])]
    ELSE [bytes EXCEPT ![1] = Xor80(bytes[1])]

(***************************************************************************)
(* utils.rs: the byte-string escape codec                                  *)
(***************************************************************************)
\* the body of encode_byte_string's loop over input[i..]
RECURSIVE EscapeFrom(_, _)
EscapeFrom(input, i) ==
  IF i >= Len(input) THEN <<>>
  ELSE IF At(input, i) = NULL
    THEN <<NULL, NULL_ESCAPE>> \o EscapeFrom(input, i + 1)
    ELSE <<At(input, i)>> \o EscapeFrom(input, i + 1)

\* a variant of encode_byte_string that does not escape 0x00
encode_byte_string_NoEscape(type_code, input) == <<type_code>> \o input \o <<NULL>>

\* encode_byte_string: the bytes pushed onto the buffer
encode_byte_string(type_code, input) ==
  <<type_code>> \o EscapeFrom(input, 0) \o <<NULL>>

\* decode_byte_string's loop over input.windows(2); w is the 0-based window
RECURSIVE WindowsLoop(_, _, _, _, _)
WindowsLoop(input, w, read, skip, bytes) ==
  IF w + 2 > Len(input) THEN <<read + 1, bytes>>
  ELSE IF skip THEN WindowsLoop(input, w + 1, read + 1, FALSE, bytes)
  ELSE IF At(input, w) = 0
    THEN IF At(input, w + 1) # 255
           THEN <<read + 1, bytes>>
           ELSE WindowsLoop(input, w + 1, read + 1, TRUE, Append(bytes, At(input, w)))
    ELSE WindowsLoop(input, w + 1, read + 1, FALSE, Append(bytes, At(input, w)))

\* a variant of decode_byte_string that stops at the first 0x00, escaped or not
RECURSIVE StopAtZero(_, _)
StopAtZero(input, w) ==
  IF w + 2 > Len(input) \/ At(input, w) = 0
    THEN <<w + 1, SubSeq(input, 1, w)>>
    ELSE StopAtZero(input, w + 1)

decode_byte_string_StopAtZero(input) == StopAtZero(input, 0)

\* decode_byte_string: <<read, bytes>>
decode_byte_string(input) == WindowsLoop(input, 0, 0, FALSE, <<>>)

(***************************************************************************)
(* segment.rs: Segment and Segment::encode                                 *)
(***************************************************************************)
Bytes(v) == <<"Bytes", v>>
String(v) == <<"String", v>>
Const(v) == <<"Const", v>>
Nested(v) == <<"Nested", v>>
Integer(v) == <<"Integer", v>>
Float(v) == <<"Float", v>>
Double(v) == <<"Double", v>>
Boolean(v) == <<"Boolean", v>>
UUID(v) == <<"UUID", v>>
RawTuple(v) == <<"Tuple", v>>

\* Segment::Integer(std::i64::MIN) arm
EncodeIntegerMin ==
  <<INT_ZERO_CODE - 8>> \o write_u64(Shr1(MAX_VALUE))

\* Segment::Integer(value) if *value > 0 arm
EncodeIntegerPos(value) ==
  LET buf == write_u64(value)
      empty == empty_bytes(buf)
  IN  <<INT_ZERO_CODE + 8 - empty>> \o SliceFrom(buf, empty)

\* a variant of the negative arm that writes the magnitude itself
EncodeIntegerNeg_NoComplement(value) ==
  LET buf == write_u64(Neg64(value))
      empty == empty_bytes(buf)
  IN  <<INT_ZERO_CODE - (8 - empty)>> \o SliceFrom(buf, empty)

\* Segment::Integer(value) if *value < 0 arm
EncodeIntegerNeg(value) ==
  LET complement == Neg64(value)
      empty == empty_bytes(write_u64(complement))
      num_bytes == 8 - empty
      size_limit == SIZE_LIMITS[num_bytes]
      buf == write_u64(Sub64(size_limit, complement))
  IN  <<INT_ZERO_CODE - num_bytes>> \o SliceFrom(buf, empty)

\* the four Segment::Integer arms, in match order
EncodeInteger(value) ==
  IF value = I64_ZERO THEN <<INT_ZERO_CODE>>
  ELSE IF value = I64_MIN THEN EncodeIntegerMin
  ELSE IF I64Less(I64_ZERO, value) THEN EncodeIntegerPos(value)
  ELSE EncodeIntegerNeg(value)

\* Segment::Float arm
EncodeFloat(value) == <<FLOAT_CODE>> \o encode_sortable_float(write_f32(value))

\* Segment::Double arm
EncodeDouble(value) == <<DOUBLE_CODE>> \o encode_sortable_float(write_f64(value))

\* Segment::Boolean arm
EncodeBoolean(value) == IF value THEN <<TRUE_CODE>> ELSE <<FALSE_CODE>>

\* Segment::UUID arm
EncodeUUID(value) == <<UUID_CODE>> \o value

\* Segment::encode: the bytes appended to the buffer.  encode_slice is the
\* loop over the children, from child i on.
RECURSIVE encode(_), EncodeFrom(_, _)
encode(seg) ==
  CASE seg[1] = "Bytes" -> encode_byte_string(BYTES_CODE, seg[2])
    [] seg[1] = "String" -> encode_byte_string(STRING_CODE, seg[2])
    [] seg[1] = "Const" -> encode_byte_string(STRING_CODE, seg[2])
    [] seg[1] = "Nested" -> <<NESTED_CODE>> \o EncodeFrom(seg[2], 0) \o <<NULL>>
    [] seg[1] = "Integer" -> EncodeInteger(seg[2])
    [] seg[1] = "Tuple" -> seg[2]
    [] seg[1] = "Boolean" -> EncodeBoolean(seg[2])
    [] seg[1] = "UUID" -> EncodeUUID(seg[2])
    [] seg[1] = "Float" -> EncodeFloat(seg[2])
    [] seg[1] = "Double" -> EncodeDouble(seg[2])

EncodeFrom(input, i) ==
  IF i >= Len(input) THEN <<>>
  ELSE encode(At(input, i)) \o EncodeFrom(input, i + 1)

\* encode_slice
encode_slice(input) == EncodeFrom(input, 0)

(***************************************************************************)
(* errors.rs: TupleError, and the outcomes of a call                       *)
(***************************************************************************)
DecodeError(position, type_code) ==
  [name |-> "DecodeError", position |-> position, type_code |-> type_code]
TruncatedNestedTuple == [name |-> "TruncatedNestedTuple"]
TruncatedTuple == [name |-> "TruncatedTuple"]
StringDecodeError == [name |-> "StringDecodeError"]
IntegerDecodeError(position) == [name |-> "IntegerDecodeError", position |-> position]
DecimalDecodeError(position) == [name |-> "DecimalDecodeError", position |-> position]
UuidDecodeError(position) == [name |-> "UuidDecodeError", position |-> position]

\* Ok((segments, index)) of decode_segments
OkRead(segments, read) == [kind |-> "Ok", segments |-> segments, read |-> read]
\* Ok(segments) of decode
Ok(segments) == [kind |-> "Ok", segments |-> segments]
Err(e) == [kind |-> "Err", err |-> e]
\* an index or a slice range out of bounds: the thread panics
Panic == [kind |-> "Panic"]

(***************************************************************************)
(* segment.rs: Segment::decode_segments and Segment::decode                *)
(***************************************************************************)
\* std::string::String::from_utf8: is bytes[i..] well-formed UTF-8
RECURSIVE Utf8From(_, _)
Utf8From(b, i) ==
  LET n == Len(b)
      Cont(k) == k < n /\ At(b, k) >= 128 /\ At(b, k) <= 191
      In(k, lo, hi) == k < n /\ At(b, k) >= lo /\ At(b, k) <= hi
      c == At(b, i)
  IN  IF i >= n THEN TRUE
      ELSE IF c < 128 THEN Utf8From(b, i + 1)
      ELSE IF c >= 194 /\ c <= 223 THEN Cont(i + 1) /\ Utf8From(b, i + 2)
      ELSE IF c = 224 THEN In(i + 1, 160, 191) /\ Cont(i + 2) /\ Utf8From(b, i + 3)
      ELSE IF c = 237 THEN In(i + 1, 128, 159) /\ Cont(i + 2) /\ Utf8From(b, i + 3)
      ELSE IF c >= 225 /\ c <= 239 THEN Cont(i + 1) /\ Cont(i + 2) /\ Utf8From(b, i + 3)
      ELSE IF c = 240
        THEN In(i + 1, 144, 191) /\ Cont(i + 2) /\ Cont(i + 3) /\ Utf8From(b, i + 4)
      ELSE IF c >= 241 /\ c <= 243
        THEN Cont(i + 1) /\ Cont(i + 2) /\ Cont(i + 3) /\ Utf8From(b, i + 4)
      ELSE IF c = 244
        THEN In(i + 1, 128, 143) /\ Cont(i + 2) /\ Cont(i + 3) /\ Utf8From(b, i + 4)
      ELSE FALSE

from_utf8_ok(bytes) == Utf8From(bytes, 0)

\* buf = [0; 8]; for i in 0..bytes { buf[8 - bytes + i] = input[index + i + 1] }
ReadPayload(input, index, bytes) ==
  [k \in 1..8 |-> IF k <= 8 - bytes THEN 0 ELSE At(input, index + (k - 1 - (8 - bytes)) + 1)]

\* a variant of DecodeNegValue that takes the class limit one too large
DecodeNegValue_OffByOne(twos_complement, bytes) ==
  IF twos_complement = I64_MAX
    THEN I64_MIN
    ELSE Sub64(Sub64(twos_complement, SIZE_LIMITS[bytes]), <<0, 0, 0, 1>>)

\* the value of a negative-class integer from its payload read as i64
DecodeNegValue(twos_complement, bytes) ==
  IF twos_complement = I64_MAX
    THEN I64_MIN
    ELSE Sub64(twos_complement, SIZE_LIMITS[bytes])

\* the four bytes the FLOAT_CODE arm hands to decode_sortable_float
FloatPayload(input, index) ==
  <<At(input, index + 1), At(input, index + 2),
    At(input, index + 2), At(input, index + 3)>>

\* the eight bytes the DOUBLE_CODE arm hands to decode_sortable_float
DoublePayload(input, index) ==
  <<At(input, index + 1), At(input, index + 2),
    At(input, index + 2), At(input, index + 3),
    At(input, index + 4), At(input, index + 5),
    At(input, index + 6), At(input, index + 7)>>

\* a variant of NestedConsumed that does not step over the terminator
NestedConsumed_NoTerminator(read) == read + 1

\* what the NESTED_CODE arm adds to index: the region and its terminator
NestedConsumed(read) == read + 2

\* the guard of the DOUBLE_CODE arm
DoubleTooShort(input, index) == index + 5 > Len(input)

\* decode_segments: the while loop from `index` on, with `segments` collected
RECURSIVE DecodeLoop(_, _, _)
DecodeLoop(input, index, segments) ==
  IF ~(index < Len(input)) THEN OkRead(segments, index)
  ELSE
  LET code == At(input, index) IN
  CASE code = BYTES_CODE ->
         LET r == decode_byte_string(SliceFrom(input, index + 1))
         IN  DecodeLoop(input, index + r[1] + 1, Append(segments, Bytes(r[2])))
    [] code = STRING_CODE ->
         LET r == decode_byte_string(SliceFrom(input, index + 1))
         IN  IF ~from_utf8_ok(r[2]) THEN Err(StringDecodeError)
             ELSE DecodeLoop(input, index + r[1] + 1, Append(segments, String(r[2])))
    [] code >= INT_NEG_MIN_CODE /\ code <= INT_NEG_MAX_CODE ->
         LET bytes == INT_ZERO_CODE - code
         IN  IF index + bytes + 1 > Len(input) THEN Err(IntegerDecodeError(index))
             ELSE LET twos_complement == read_u64(ReadPayload(input, index, bytes))
                      value == DecodeNegValue(twos_complement, bytes)
                  IN  DecodeLoop(input, index + bytes + 1, Append(segments, Integer(value)))
    [] code >= INT_POS_MIN_CODE /\ code <= INT_POS_MAX_CODE ->
         LET bytes == code - INT_ZERO_CODE
         IN  IF index + bytes + 1 > Len(input) THEN Err(IntegerDecodeError(index))
             ELSE LET value == read_u64(ReadPayload(input, index, bytes))
                  IN  DecodeLoop(input, index + bytes + 1, Append(segments, Integer(value)))
    [] code = INT_ZERO_CODE ->
         DecodeLoop(input, index + 1, Append(segments, Integer(I64_ZERO)))
    [] code = FLOAT_CODE ->
         IF index + 5 > Len(input) THEN Err(DecimalDecodeError(index))
         ELSE LET float == decode_sortable_float(FloatPayload(input, index))
              IN  DecodeLoop(input, index + 5, Append(segments, Float(read_f32(float))))
    [] code = DOUBLE_CODE ->
         IF DoubleTooShort(input, index) THEN Err(DecimalDecodeError(index))
         ELSE IF ~(index + 7 < Len(input)) THEN Panic
         ELSE LET float == decode_sortable_float(DoublePayload(input, index))
              IN  DecodeLoop(input, index + 9, Append(segments, Double(read_f64(float))))
    [] code = TRUE_CODE ->
         DecodeLoop(input, index + 1, Append(segments, Boolean(TRUE)))
    [] code = FALSE_CODE ->
         DecodeLoop(input, index + 1, Append(segments, Boolean(FALSE)))
    [] code = UUID_CODE ->
         IF index + 17 > Len(input) THEN Panic
         ELSE DecodeLoop(input, index + 17,
                         Append(segments, UUID(Slice(input, index + 1, index + 17))))
    [] code = NESTED_CODE ->
         LET inner == DecodeLoop(SliceFrom(input, index + 1), 0, <<>>)
         IN  IF inner.kind # "Ok" THEN inner
             ELSE IF ~(index + inner.read + 1 < Len(input)) THEN Panic
             ELSE IF At(input, index + inner.read + 1) # NULL THEN Err(TruncatedNestedTuple)
             ELSE DecodeLoop(input, index + NestedConsumed(inner.read),
                             Append(segments, Nested(inner.segments)))
    [] code = NULL -> OkRead(segments, index)
    [] OTHER -> Err(DecodeError(index, code))

\* Segment::decode_segments
decode_segments(input) == DecodeLoop(input, 0, <<>>)

\* Segment::decode
decode(input) ==
  LET r == decode_segments(input)
  IN  IF r.kind # "Ok" THEN r
      ELSE IF r.read # Len(input) THEN Err(TruncatedTuple)
      ELSE Ok(r.segments)

(***************************************************************************)
(* lib.rs: the Tuple builder.  A builder is its buffer; `segs` records the *)
(* segments the caller has added to it.                                    *)
(***************************************************************************)
\* Tuple::new
NewTuple == [segs |-> <<>>, buffer |-> <<>>]

\* no call to as_segments has returned since the buffer last changed
NoResult == [kind |-> "None"]

\* Tuple::add_segment: input.encode(&mut self.buffer)
add_segment(self, input) ==
  [segs |-> Append(self.segs, input), buffer |-> self.buffer \o encode(input)]

\* Tuple::as_segments
as_segments(self) == decode(self.buffer)

Init ==
  /\ left = NewTuple
  /\ right = NewTuple
  /\ out = NoResult
  /\ stack = <<>>

AddLeft(seg) ==
  /\ left' = add_segment(left, seg)
  /\ out' = NoResult
  /\ UNCHANGED <<right, stack>>

AddRight(seg) ==
  /\ right' = add_segment(right, seg)
  /\ UNCHANGED <<left, out, stack>>

AsSegments ==
  /\ out = NoResult
  /\ out' = as_segments(left)
  /\ UNCHANGED <<left, right, stack>>

(***************************************************************************)
(* Bounds and the values the callers pass                                  *)
(***************************************************************************)
\* integers within IntDelta of a byte-length class boundary
IntDelta == 1
\* mantissas within MantDelta of the smallest and the largest
MantDelta == 1
\* byte strings of at most MaxBytes bytes
MaxBytes == 3
\* nested values of at most MaxNodes segments, counted at every depth
MaxNodes == 4
\* pairs of tuples of at most MaxPairNodes segments together
MaxPairNodes == 4
\* raw inputs of at most MaxChunks chunks
MaxChunks == 3

Small(d) == <<0, 0, 0, d>>

\* 2^(8n) as a u64, n in 0..7
Pow256(n) == read_u64([k \in 1..8 |-> IF k = 8 - n THEN 1 ELSE 0])

Magnitudes ==
  UNION {{Sub64(Pow256(n), Small(d)), Add64(Pow256(n), Small(d))} :
           n \in 0..7, d \in 0..IntDelta}

IntVals ==
  Magnitudes \cup {Neg64(m) : m \in Magnitudes}
    \cup {Add64(I64_MIN, Small(d)) : d \in 0..IntDelta}
    \cup {Sub64(I64_MAX, Small(d)) : d \in 0..IntDelta}

MantMax32 == 128 * 65536 - 1
MantVals32 == (0..MantDelta) \cup ((MantMax32 - MantDelta)..MantMax32)
FloatVals == [s : {0, 1}, e : {0, 1, 127, 254, 255}, m : MantVals32]

MantVals64 ==
  {<<0, 0, d>> : d \in 0..MantDelta}
    \cup {<<16 * 65536 - 1, 65535, 65535 - d>> : d \in 0..MantDelta}
DoubleVals == [s : {0, 1}, e : {0, 1, 1023, 2046, 2047}, m : MantVals64]

\* all sequences over `alphabet` of length at most n
RECURSIVE SeqsUpTo(_, _)
SeqsUpTo(alphabet, n) ==
  IF n = 0 THEN {<<>>}
  ELSE LET shorter == SeqsUpTo(alphabet, n - 1)
       IN  shorter \cup {Append(q, b) : q \in shorter, b \in alphabet}

ByteVals == SeqsUpTo({0, 1, 255}, MaxBytes)

\* NUL, 'A', and the two bytes of U+00E9
StringVals == {b \in SeqsUpTo({0, 65, 195, 169}, MaxBytes) : from_utf8_ok(b)}

UuidVals ==
  {[i \in 1..16 |-> 0], [i \in 1..16 |-> IF i = 16 THEN 1 ELSE 0],
   [i \in 1..16 |-> 255]}

\* the number of segments of a value, counted at every depth
RECURSIVE Size(_), SizeFrom(_, _)
Size(seg) == IF seg[1] = "Nested" THEN 1 + SizeFrom(seg[2], 0) ELSE 1
SizeFrom(segs, i) ==
  IF i >= Len(segs) THEN 0 ELSE Size(At(segs, i)) + SizeFrom(segs, i + 1)

\* the sequences of segments of exactly n segments in all, over `leaves`
RECURSIVE Forests(_, _), SegsOfSize(_, _)
Forests(leaves, n) ==
  IF n = 0 THEN {<<>>}
  ELSE UNION {{<<sg>> \o rest : sg \in SegsOfSize(leaves, k),
                                rest \in Forests(leaves, n - k)} : k \in 1..n}
SegsOfSize(leaves, k) ==
  IF k = 1 THEN leaves \cup {Nested(<<>>)}
  ELSE {Nested(f) : f \in Forests(leaves, k - 1)}

SegsUpTo(leaves, n) == UNION {SegsOfSize(leaves, k) : k \in 1..n}

(***************************************************************************)
(* Orders: of byte strings, of values, of tuples                           *)
(***************************************************************************)
\* a < b byte-lexicographically (a proper prefix sorts first)
LexLess(a, b) ==
  \/ Len(a) < Len(b) /\ \A j \in 1..Len(a) : a[j] = b[j]
  \/ \E i \in 1..Len(a) :
       /\ i <= Len(b)
       /\ a[i] < b[i]
       /\ \A j \in 1..(i - 1) : a[j] = b[j]

\* exponent and mantissa of a Float or Double segment, most significant first
Magnitude(seg) ==
  IF seg[1] = "Float" THEN <<seg[2].e, seg[2].m>> ELSE <<seg[2].e>> \o seg[2].m

IsZeroFloat(seg) == \A i \in 1..Len(Magnitude(seg)) : Magnitude(seg)[i] = 0

\* a < b in the total order of the bit patterns of two Floats or two Doubles:
\* sign first, then magnitude, so that -0.0 comes right before +0.0
FloatTotalLess(a, b) ==
  IF a[2].s # b[2].s THEN a[2].s = 1
  ELSE IF a[2].s = 0 THEN LexLess(Magnitude(a), Magnitude(b))
  ELSE LexLess(Magnitude(b), Magnitude(a))

\* a < b as numbers (neither is a NaN): as above, but -0.0 = +0.0
FloatNumLess(a, b) ==
  IF IsZeroFloat(a) /\ IsZeroFloat(b) THEN FALSE ELSE FloatTotalLess(a, b)

IsNaN32(f) == f.e = 255 /\ f.m # 0
IsNaN64(f) == f.e = 2047 /\ f.m # <<0, 0, 0>>

(***************************************************************************)
(* Integers: each builder is given one integer                             *)
(***************************************************************************)
AddIntegerLeft(v) == left.segs = <<>> /\ AddLeft(Integer(v))
AddIntegerRight(v) == right.segs = <<>> /\ AddRight(Integer(v))

NextInt ==
  \/ \E v \in IntVals : AddIntegerLeft(v)
  \/ \E v \in IntVals : AddIntegerRight(v)
  \/ AsSegments

SpecInt == Init /\ [][NextInt]_vars

BothHold(variant) ==
  /\ Len(left.segs) = 1 /\ left.segs[1][1] = variant
  /\ Len(right.segs) = 1 /\ right.segs[1][1] = variant

\* C3: for all i64 a and b, a < b if and only if the encoding of Integer(a)
\* is byte-lexicographically less than the encoding of Integer(b).
C3_IntegerOrder ==
  BothHold("Integer") =>
    (I64Less(left.segs[1][2], right.segs[1][2]) <=> LexLess(left.buffer, right.buffer))

\* -256 (two payload bytes) against -255 (one payload byte)
C3_Witness ==
  /\ BothHold("Integer")
  /\ left.segs[1][2] = Neg64(<<0, 0, 0, 256>>)
  /\ right.segs[1][2] = Neg64(<<0, 0, 0, 255>>)
  /\ LexLess(left.buffer, right.buffer)

\* C6: decoding the encoding of Integer(v) returns exactly [Integer(v)], for
\* every i64 v; the 8-byte negative payload 0x7FFF...FF is the encoding of
\* i64::MIN and of no other value.
C6_IntegerRoundTrip ==
  Len(left.segs) = 1 =>
    /\ out # NoResult => out = Ok(left.segs)
    /\ (left.buffer = <<12, 127, 255, 255, 255, 255, 255, 255, 255>>
          <=> left.segs[1] = Integer(I64_MIN))

C6_Witness ==
  /\ left.segs = <<Integer(I64_MIN)>>
  /\ left.buffer = <<12, 127, 255, 255, 255, 255, 255, 255, 255>>
  /\ out = Ok(<<Integer(I64_MIN)>>)

(***************************************************************************)
(* Floats and doubles: each builder is given one of them                   *)
(***************************************************************************)
AddFloatLeft(f) == left.segs = <<>> /\ AddLeft(Float(f))
AddFloatRight(f) == right.segs = <<>> /\ AddRight(Float(f))
AddDoubleLeft(f) == left.segs = <<>> /\ AddLeft(Double(f))
AddDoubleRight(f) == right.segs = <<>> /\ AddRight(Double(f))

NextFloat ==
  \/ \E f \in FloatVals : AddFloatLeft(f)
  \/ \E f \in FloatVals : AddFloatRight(f)
  \/ \E f \in DoubleVals : AddDoubleLeft(f)
  \/ \E f \in DoubleVals : AddDoubleRight(f)

SpecFloat == Init /\ [][NextFloat]_vars

IsNaNSeg(seg) == IF seg[1] = "Float" THEN IsNaN32(seg[2]) ELSE IsNaN64(seg[2])

\* both builders hold one Float, or both one Double, and neither is a NaN
BothHoldNumbers ==
  /\ BothHold("Float") \/ BothHold("Double")
  /\ ~IsNaNSeg(left.segs[1])
  /\ ~IsNaNSeg(right.segs[1])

\* the byte string that follows b among the byte strings of its length
RECURSIVE BytesSucc(_)
BytesSucc(b) ==
  IF b = <<>> THEN <<>>
  ELSE IF b[Len(b)] < 255 THEN [b EXCEPT ![Len(b)] = b[Len(b)] + 1]
  ELSE Append(BytesSucc(SubSeq(b, 1, Len(b) - 1)), 0)

\* C4 as stated: for all finite values and both infinities a and b, a < b
\* numerically if and only if encode(Float(a)) < encode(Float(b)) (same for
\* Double).
C4_AsStated ==
  BothHoldNumbers =>
    (FloatNumLess(left.segs[1], right.segs[1])
       <=> LexLess(left.buffer, right.buffer))

\* C4, amended: for all non-NaN a and b that are not both zeros, a < b
\* numerically if and only if encode(a) < encode(b); -0.0 and +0.0 are equal as
\* numbers and are encoded differently, the encoding of +0.0 being the byte
\* string right after that of -0.0 (so both lie above every negative value's
\* encoding and below every positive value's).
C4_FloatOrder ==
  BothHoldNumbers =>
    LET a == left.segs[1]
        b == right.segs[1]
    IN  /\ ~(IsZeroFloat(a) /\ IsZeroFloat(b)) =>
             (FloatNumLess(a, b) <=> LexLess(left.buffer, right.buffer))
        /\ (IsZeroFloat(a) /\ IsZeroFloat(b) /\ a[2].s = 1 /\ b[2].s = 0) =>
             /\ BytesSucc(left.buffer) = right.buffer
             /\ LexLess(left.buffer, right.buffer)

\* -0.0 on the left, +0.0 on the right
C4_Witness ==
  /\ BothHold("Float")
  /\ left.segs[1][2] = [s |-> 1, e |-> 0, m |-> 0]
  /\ right.segs[1][2] = [s |-> 0, e |-> 0, m |-> 0]
  /\ BytesSucc(left.buffer) = right.buffer

(***************************************************************************)
(* Round trip: one segment is added to the left builder, then decoded      *)
(***************************************************************************)
NestLeaves ==
  {Boolean(TRUE), Integer(<<0, 0, 0, 1>>), Integer(Neg64(<<0, 0, 0, 256>>)),
   Bytes(<<>>), Bytes(<<0>>), String(<<65>>)}

RoundTripVals ==
  {Integer(v) : v \in IntVals}
    \cup {Float(f) : f \in FloatVals}
    \cup {Double(f) : f \in DoubleVals}
    \cup {Bytes(b) : b \in ByteVals}
    \cup {String(b) : b \in StringVals}
    \cup {Boolean(b) : b \in BOOLEAN}
    \cup {UUID(u) : u \in UuidVals}
    \cup SegsUpTo(NestLeaves, MaxNodes)

AddOne(seg) == left.segs = <<>> /\ AddLeft(seg)

NextRoundTrip ==
  \/ \E seg \in RoundTripVals : AddOne(seg)
  \/ AsSegments

SpecRoundTrip == Init /\ [][NextRoundTrip]_vars

\* as_segments has returned for the one segment of the left builder
Decoded == Len(left.segs) = 1 /\ out # NoResult

\* C2: for every segment value v, decode applied to the bytes produced by
\* encoding v alone returns Ok with exactly the one-element sequence [v].
C2_RoundTrip == Decoded => out = Ok(left.segs)

\* the number of 0x00 bytes among the first n bytes of b
RECURSIVE ZerosBefore(_, _)
ZerosBefore(b, n) ==
  IF n = 0 THEN 0 ELSE ZerosBefore(b, n - 1) + (IF b[n] = 0 THEN 1 ELSE 0)

\* e is: the tag, then b with each 0x00 followed by an inserted 0xFF, then 0x00
IsEscapedForm(e, tag, b) ==
  /\ Len(e) = Len(b) + ZerosBefore(b, Len(b)) + 2
  /\ e[1] = tag
  /\ e[Len(e)] = 0
  /\ \A i \in 1..Len(b) :
       LET pos == 1 + i + ZerosBefore(b, i - 1)
       IN  /\ e[pos] = b[i]
           /\ b[i] = 0 => e[pos + 1] = 255

\* C7: encode(Bytes(b)) is the bytes tag, then b with each 0x00 replaced by
\* 0x00 0xFF, then one 0x00 terminator, and decoding that yields exactly
\* [Bytes(b)] with all bytes consumed; the same for String with the string tag.
C7_EscapeRoundTrip ==
  (Len(left.segs) = 1 /\ left.segs[1][1] \in {"Bytes", "String"}) =>
    /\ IsEscapedForm(left.buffer,
                     IF left.segs[1][1] = "Bytes" THEN 1 ELSE 2, left.segs[1][2])
    /\ out # NoResult =>
         /\ out = Ok(left.segs)
         /\ decode_segments(left.buffer).read = Len(left.buffer)

\* a zero at the start followed by 0xFF, decoded
C7_Witness ==
  /\ left.segs = <<Bytes(<<0, 255, 0>>)>>
  /\ left.buffer = <<1, 0, 255, 255, 0, 255, 0>>
  /\ out = Ok(<<Bytes(<<0, 255, 0>>)>>)

\* the concatenation of the encodings of segs[i..]
RECURSIVE ConcatEncodings(_, _)
ConcatEncodings(segs, i) ==
  IF i > Len(segs) THEN <<>> ELSE encode(segs[i]) \o ConcatEncodings(segs, i + 1)

\* C8: for a Nested segment with Boolean, Integer, Bytes, String or Nested
\* children, encode writes the nested-open tag, the children's encodings in
\* order and one 0x00 terminator, and decode of those bytes returns exactly that
\* one Nested segment, having consumed the whole input.
C8_NestedRoundTrip ==
  (Len(left.segs) = 1 /\ left.segs[1][1] = "Nested") =>
    /\ left.buffer = <<5>> \o ConcatEncodings(left.segs[1][2], 1) \o <<0>>
    /\ out # NoResult =>
         /\ out = Ok(left.segs)
         /\ decode_segments(left.buffer).read = Len(left.buffer)

\* a nested region inside a nested region, closed by a byte string
C8_Witness ==
  /\ left.segs = <<Nested(<<Nested(<<Bytes(<<0>>)>>), Boolean(TRUE)>>)>>
  /\ left.buffer = <<5, 5, 1, 0, 255, 0, 0, 39, 0>>
  /\ out = Ok(left.segs)

(***************************************************************************)
(* Order: segments are added to two builders                               *)
(***************************************************************************)
OrderLeaves ==
  {Bytes(<<>>), Bytes(<<0>>), String(<<65>>),
   Integer(Neg64(<<0, 0, 0, 1>>)),
   Float([s |-> 1, e |-> 0, m |-> 0]), Float([s |-> 0, e |-> 0, m |-> 0]),
   Double([s |-> 0, e |-> 1023, m |-> <<0, 0, 0>>]),
   Boolean(TRUE),
   UUID([i \in 1..16 |-> 0])}

\* the segments of exactly k segments in all, for each k within the bound
OrderVals == [k \in 1..MaxPairNodes |-> SegsOfSize(OrderLeaves, k)]

\* how many more segments the two builders may take together
Room == MaxPairNodes - (SizeFrom(left.segs, 0) + SizeFrom(right.segs, 0))

AddSegmentLeft(seg) == AddLeft(seg)
AddSegmentRight(seg) == AddRight(seg)

NextOrder ==
  \/ \E k \in 1..Room : \E seg \in OrderVals[k] : AddSegmentLeft(seg)
  \/ \E k \in 1..Room : \E seg \in OrderVals[k] : AddSegmentRight(seg)

SpecOrder == Init /\ [][NextOrder]_vars

\* Bytes < String < Nested < Integer < Float < Double < Boolean < UUID
VariantRank(seg) ==
  CASE seg[1] = "Bytes" -> 1
    [] seg[1] = "String" -> 2
    [] seg[1] = "Nested" -> 3
    [] seg[1] = "Integer" -> 4
    [] seg[1] = "Float" -> 5
    [] seg[1] = "Double" -> 6
    [] seg[1] = "Boolean" -> 7
    [] seg[1] = "UUID" -> 8

\* a < b for segments, and s < t for sequences of segments from index i on:
\* by variant, then by value; a sequence that is a proper prefix sorts first.
\* With signedZero, -0.0 < +0.0; without, they are equal.
RECURSIVE SegLess(_, _, _), TupleLessFrom(_, _, _, _)
SegLess(a, b, signedZero) ==
  IF VariantRank(a) # VariantRank(b) THEN VariantRank(a) < VariantRank(b)
  ELSE CASE a[1] \in {"Bytes", "String", "UUID"} -> LexLess(a[2], b[2])
         [] a[1] = "Nested" -> TupleLessFrom(a[2], b[2], 1, signedZero)
         [] a[1] = "Integer" -> I64Less(a[2], b[2])
         [] a[1] \in {"Float", "Double"} ->
              IF signedZero THEN FloatTotalLess(a, b) ELSE FloatNumLess(a, b)
         [] a[1] = "Boolean" -> ~a[2] /\ b[2]
TupleLessFrom(s, t, i, signedZero) ==
  IF i > Len(s) THEN i <= Len(t)
  ELSE IF i > Len(t) THEN FALSE
  ELSE IF SegLess(s[i], t[i], signedZero) THEN TRUE
  ELSE IF SegLess(t[i], s[i], signedZero) THEN FALSE
  ELSE TupleLessFrom(s, t, i + 1, signedZero)

TupleLess(s, t, signedZero) == TupleLessFrom(s, t, 1, signedZero)

\* C1 as stated: the encoding of T1 is byte-lexicographically less than that
\* of T2 if and only if T1 < T2 element-wise, segments of different variants
\* comparing by tag order and of the same variant by natural value order.
C1_AsStated ==
  LexLess(left.buffer, right.buffer) <=> TupleLess(left.segs, right.segs, FALSE)

\* C1, amended: the same, with Float and Double segments compared by value
\* except that -0.0 sorts right before +0.0 (as numbers they are equal, and
\* their encodings differ).
C1_TupleOrder ==
  LexLess(left.buffer, right.buffer) <=> TupleLess(left.segs, right.segs, TRUE)

\* two nested tuples: a terminator against an escaped 0x00 inside them
C1_Witness ==
  /\ left.segs = <<Nested(<<Bytes(<<>>)>>)>>
  /\ right.segs = <<Nested(<<Bytes(<<0>>)>>)>>
  /\ LexLess(left.buffer, right.buffer)

(***************************************************************************)
(* Raw input: already encoded bytes are spliced into the left builder      *)
(* (Segment::Tuple), then decoded                                          *)
(***************************************************************************)
\* one byte: a terminator, tags of every kind, an escape, a letter
TagChunks == {<<b>> : b \in {0, 1, 2, 5, 19, 21, 32, 33, 48, 65, 255}}

\* payloads as long as, and shorter than, a float's, a double's and a UUID's
FillChunks == {[i \in 1..n |-> 65] : n \in {4, 7, 8, 15, 16}}

RawChunks == TagChunks \cup FillChunks

AddRaw(chunk) == Len(left.segs) < MaxChunks /\ AddLeft(RawTuple(chunk))

NextRaw ==
  \/ \E chunk \in RawChunks : AddRaw(chunk)
  \/ AsSegments

SpecRaw == Init /\ [][NextRaw]_vars

\* C5: for every input byte sequence, decode returns either Ok(segments) or
\* a typed TupleError, and never reads out of bounds (no panic).
C5_DecodeTotal == out # Panic

\* the input opens a nested region at index 0 and the recursive decode of the
\* rest runs to the end of the input without meeting a terminator
UnclosedNested(input) ==
  /\ Len(input) > 0
  /\ At(input, 0) = NESTED_CODE
  /\ LET inner == decode_segments(SliceFrom(input, 1))
     IN  inner.kind = "Ok" /\ inner.read >= Len(input) - 1

\* C9: when a nested-open tag is reached and the recursive decode of the
\* following bytes does not end at a 0x00 terminator, decode returns the
\* TruncatedNestedTuple error.
C9_TruncatedNested ==
  (out # NoResult /\ UnclosedNested(left.buffer)) => out = Err(TruncatedNestedTuple)

\* C10: decode returns TruncatedTuple exactly when the consumed count differs
\* from the input length; whenever it does, the consumed count is less than the
\* input length and the input byte at that index is 0x00; decode never returns
\* Ok while leaving input bytes undecoded.
C10_TruncatedTuple ==
  LET r == decode_segments(left.buffer)
  IN  (out # NoResult /\ r.kind = "Ok") =>
        /\ out = Err(TruncatedTuple) <=> r.read # Len(left.buffer)
        /\ out = Err(TruncatedTuple) =>
             r.read < Len(left.buffer) /\ At(left.buffer, r.read) = 0
        /\ out.kind = "Ok" => r.read = Len(left.buffer)

(***************************************************************************)
(* Prefix reuse: segments are added to two builders, the left builder      *)
(* embeds the right one (Tuple::add_builder), then is decoded              *)
(***************************************************************************)
\* a variant of add_builder that overwrites the receiver's buffer
add_builder_Overwrite(self, input) ==
  [segs |-> self.segs \o input.segs, buffer |-> input.buffer]

\* Tuple::add_builder: self.buffer.extend_from_slice(&input.buffer)
add_builder(self, input) ==
  [segs |-> self.segs \o input.segs, buffer |-> self.buffer \o input.buffer]

PrefixLeaves ==
  {Bytes(<<0>>), String(<<65>>), Integer(<<0, 0, 0, 1>>), Integer(<<0, 0, 0, 2>>),
   Boolean(FALSE), UUID([i \in 1..16 |-> 255])}

PrefixVals == [k \in 1..MaxPairNodes |-> SegsOfSize(PrefixLeaves, k)]

AddPrefixLeft(seg) == AddLeft(seg)
AddPrefixRight(seg) == AddRight(seg)

AddBuilder ==
  /\ right.segs # <<>>
  /\ SizeFrom(right.segs, 0) <= Room
  /\ left' = add_builder(left, right)
  /\ out' = NoResult
  /\ UNCHANGED <<right, stack>>

NextPrefix ==
  \/ \E k \in 1..Room : \E seg \in PrefixVals[k] : AddPrefixLeft(seg)
  \/ \E k \in 1..Room : \E seg \in PrefixVals[k] : AddPrefixRight(seg)
  \/ AddBuilder
  \/ AsSegments

SpecPrefix == Init /\ [][NextPrefix]_vars

\* a is a prefix of b
IsPrefix(a, b) == Len(a) <= Len(b) /\ SubSeq(b, 1, Len(a)) = a

\* the left builder's segments grow by exactly the right builder's segments
EmbedsRight == left'.segs = left.segs \o right.segs /\ right.segs # <<>>

\* C11: for segment sequences S1 and S2 over Bytes, String, Integer, Boolean,
\* UUID and Nested segments, the buffer holding S1 followed by S2 is
\* encode(S1) ++ encode(S2) and decodes to S1 followed by S2; a step of
\* add_builder appends exactly the other builder's bytes to the receiver's
\* buffer, whose previous bytes stay as a prefix, and leaves the other
\* builder's buffer unchanged.
C11_PrefixConcat ==
  /\ [](/\ left.buffer = encode_slice(left.segs)
        /\ right.buffer = encode_slice(right.segs)
        /\ out # NoResult => out = Ok(left.segs))
  /\ [][/\ IsPrefix(left.buffer, left'.buffer)
        /\ EmbedsRight =>
             /\ left'.buffer = left.buffer \o right.buffer
             /\ right'.buffer = right.buffer]_vars

\* [String("A"), Integer(1)] has embedded [Integer(2)] and has been decoded
C11_Witness ==
  /\ right.segs = <<Integer(<<0, 0, 0, 2>>)>>
  /\ left.segs = <<String(<<65>>), Integer(<<0, 0, 0, 1>>), Integer(<<0, 0, 0, 2>>)>>
  /\ left.buffer = <<2, 65, 0, 21, 1, 21, 2>>
  /\ out = Ok(left.segs)

(***************************************************************************)
(* Decoding step by step: raw bytes are spliced into the left builder,     *)
(* then Segment::decode runs on its buffer one loop iteration at a time.   *)
(* When the decode has ended, `out` holds its outcome and `stack` stays as *)
(* it was at the iteration that ended it.                                  *)
(***************************************************************************)
\* an activation of decode_segments: its argument and its two locals
Frame(input) == [input |-> input, index |-> 0, segments |-> <<>>]

\* the match pushes `seg` and evaluates to `by`, which is added to index
Advance(by, seg) == [kind |-> "Advance", by |-> by, seg |-> seg]

\* the NULL arm: return Ok((segments, index))
ReturnOk == [kind |-> "Return"]

\* a variant of IntegerTooShort that allows one missing byte
IntegerTooShort_OffByOne(input, index, bytes) == index + bytes > Len(input)

\* the guard of the two integer arms
IntegerTooShort(input, index, bytes) == index + bytes + 1 > Len(input)

\* one evaluation of the match on input[index], for every tag but NESTED_CODE
Iteration(input, index) ==
  LET code == At(input, index) IN
  CASE code = BYTES_CODE ->
         LET r == decode_byte_string(SliceFrom(input, index + 1))
         IN  Advance(r[1] + 1, Bytes(r[2]))
    [] code = STRING_CODE ->
         LET r == decode_byte_string(SliceFrom(input, index + 1))
         IN  IF ~from_utf8_ok(r[2]) THEN Err(StringDecodeError)
             ELSE Advance(r[1] + 1, String(r[2]))
    [] code >= INT_NEG_MIN_CODE /\ code <= INT_NEG_MAX_CODE ->
         LET bytes == INT_ZERO_CODE - code
         IN  IF IntegerTooShort(input, index, bytes) THEN Err(IntegerDecodeError(index))
             ELSE IF ~(index + bytes < Len(input)) THEN Panic
             ELSE LET twos_complement == read_u64(ReadPayload(input, index, bytes))
                  IN  Advance(bytes + 1, Integer(DecodeNegValue(twos_complement, bytes)))
    [] code >= INT_POS_MIN_CODE /\ code <= INT_POS_MAX_CODE ->
         LET bytes == code - INT_ZERO_CODE
         IN  IF IntegerTooShort(input, index, bytes) THEN Err(IntegerDecodeError(index))
             ELSE IF ~(index + bytes < Len(input)) THEN Panic
             ELSE Advance(bytes + 1, Integer(read_u64(ReadPayload(input, index, bytes))))
    [] code = INT_ZERO_CODE -> Advance(1, Integer(I64_ZERO))
    [] code = FLOAT_CODE ->
         IF index + 5 > Len(input) THEN Err(DecimalDecodeError(index))
         ELSE Advance(5, Float(read_f32(decode_sortable_float(FloatPayload(input, index)))))
    [] code = DOUBLE_CODE ->
         IF DoubleTooShort(input, index) THEN Err(DecimalDecodeError(index))
         ELSE IF ~(index + 7 < Len(input)) THEN Panic
         ELSE Advance(9, Double(read_f64(decode_sortable_float(DoublePayload(input, index)))))
    [] code = TRUE_CODE -> Advance(1, Boolean(TRUE))
    [] code = FALSE_CODE -> Advance(1, Boolean(FALSE))
    [] code = UUID_CODE ->
         IF index + 17 > Len(input) THEN Panic
         ELSE Advance(17, UUID(Slice(input, index + 1, index + 17)))
    [] code = NULL -> ReturnOk
    [] OTHER -> Err(DecodeError(index, code))

\* the innermost activation and the ones around it
Top == stack[Len(stack)]
Callers == SubSeq(stack, 1, Len(stack) - 1)

\* a decode is under way
Decoding == stack # <<>> /\ out = NoResult

\* the decode ends with `result`
Finish(result) == out' = result /\ UNCHANGED stack

\* the innermost activation returns Ok((segments, read)): to Segment::decode,
\* or to the NESTED_CODE arm of the activation that called it
Return(segments, read) ==
  IF Len(stack) = 1
    THEN Finish(IF read # Len(Top.input) THEN Err(TruncatedTuple) ELSE Ok(segments))
    ELSE LET caller == stack[Len(stack) - 1] IN
         IF ~(caller.index + read + 1 < Len(caller.input)) THEN Finish(Panic)
         ELSE IF At(caller.input, caller.index + read + 1) # NULL
           THEN Finish(Err(TruncatedNestedTuple))
         ELSE /\ stack' = [Callers EXCEPT ![Len(stack) - 1] =
                             [caller EXCEPT !.index = @ + NestedConsumed(read),
                                            !.segments = Append(@, Nested(segments))]]
              /\ UNCHANGED out

\* a terminator, tags of six kinds (for integers, the one-byte and the
\* eight-byte class of either sign), a letter, an escape; payloads as long as
\* a float's and one byte short of a double's
DecodeChunks ==
  {<<b>> : b \in {0, 1, 2, 5, 12, 19, 21, 28, 32, 33, 65, 255}}
    \cup {[i \in 1..n |-> 65] : n \in {4, 7}}

AddInput(chunk) == stack = <<>> /\ out = NoResult /\ AddRaw(chunk)

\* Segment::decode calls decode_segments(input)
BeginDecode ==
  /\ stack = <<>> /\ out = NoResult
  /\ stack' = <<Frame(left.buffer)>>
  /\ UNCHANGED <<left, right, out>>

\* the while condition is false: return Ok((segments, index))
LoopExit ==
  /\ Decoding
  /\ ~(Top.index < Len(Top.input))
  /\ Return(Top.segments, Top.index)
  /\ UNCHANGED <<left, right>>

\* the NESTED_CODE arm calls decode_segments(&input[index + 1..])
Recurse ==
  /\ Decoding
  /\ Top.index < Len(Top.input)
  /\ At(Top.input, Top.index) = NESTED_CODE
  /\ stack' = Append(stack, Frame(SliceFrom(Top.input, Top.index + 1)))
  /\ UNCHANGED <<left, right, out>>

\* an iteration of the while loop on any other tag
Iterate ==
  /\ Decoding
  /\ Top.index < Len(Top.input)
  /\ At(Top.input, Top.index) # NESTED_CODE
  /\ LET r == Iteration(Top.input, Top.index) IN
     CASE r.kind = "Advance" ->
            /\ stack' = [stack EXCEPT ![Len(stack)] =
                           [Top EXCEPT !.index = @ + r.by,
                                       !.segments = Append(@, r.seg)]]
            /\ UNCHANGED out
       [] r.kind = "Return" -> Return(Top.segments, Top.index)
       [] OTHER -> Finish(r)
  /\ UNCHANGED <<left, right>>

NextDecode ==
  \/ \E chunk \in DecodeChunks : AddInput(chunk)
  \/ BeginDecode
  \/ LoopExit
  \/ Recurse
  \/ Iterate

SpecDecode == Init /\ [][NextDecode]_vars

\* the decode of the left builder's buffer has ended
Ended == stack # <<>> /\ out # NoResult

\* the outcome reached step by step is the outcome of Segment::decode
StepwiseAgrees == Ended => out = decode(left.buffer)

\* the top-level activation is about to match the tag at its index
AtTopLevelTag == Decoding /\ Len(stack) = 1 /\ Top.index < Len(Top.input)

\* the tag the innermost activation is about to match, and the number of
\* bytes that remain after it
Tag == At(Top.input, Top.index)
Remaining == Len(Top.input) - Top.index - 1

\* C12: whenever the decoder reaches, at top-level index i, a float tag with
\* fewer than 4 bytes remaining after it, or a double tag with fewer than 8
\* bytes remaining after it, decode returns DecimalDecodeError with position i.
C12_TruncatedDecimal ==
  [][(/\ AtTopLevelTag
      /\ \/ Tag = FLOAT_CODE /\ Remaining < 4
         \/ Tag = DOUBLE_CODE /\ Remaining < 8)
       => out' = Err(DecimalDecodeError(Top.index))]_vars

\* the innermost activation, at any depth, is about to match the tag at its index
AtTag == Decoding /\ Top.index < Len(Top.input)

\* the tags the match has an arm for
KnownTags ==
  {NULL, BYTES_CODE, STRING_CODE, NESTED_CODE, FLOAT_CODE, DOUBLE_CODE,
   FALSE_CODE, TRUE_CODE, UUID_CODE} \cup (INT_NEG_MIN_CODE..INT_POS_MAX_CODE)

\* where the slice of the k-th activation starts in the input of the first
RECURSIVE SliceStart(_)
SliceStart(k) == IF k = 1 THEN 0 ELSE SliceStart(k - 1) + stack[k - 1].index + 1

\* the offset of the innermost activation's index in the input given to decode
Offset == SliceStart(Len(stack)) + Top.index

\* C13: whenever the decoder reaches, in tag position, a byte that is not a
\* known tag, at the top level or inside a nested region at any depth, decode
\* returns DecodeError whose type_code is that byte and whose position is the
\* byte's offset in the input passed to the top-level decode.
C13_UnknownTag ==
  [][(AtTag /\ Tag \notin KnownTags)
       => /\ out' = Err(DecodeError(Offset, Tag))
          /\ At(left.buffer, Offset) = Tag]_vars

\* the number of payload bytes an integer tag declares
DeclaredBytes(tag) ==
  IF tag < INT_ZERO_CODE THEN INT_ZERO_CODE - tag ELSE tag - INT_ZERO_CODE

IsIntegerTag(tag) ==
  tag >= INT_NEG_MIN_CODE /\ tag <= INT_POS_MAX_CODE /\ tag # INT_ZERO_CODE

\* C14: whenever the decoder reaches, at top-level index i, an integer tag in
\* 0x0C..0x13 or 0x15..0x1C that declares n payload bytes while fewer than n
\* bytes remain after it, decode returns IntegerDecodeError with position i
\* (an error, so no segments).
C14_TruncatedInteger ==
  [][(AtTopLevelTag /\ IsIntegerTag(Tag) /\ Remaining < DeclaredBytes(Tag))
       => out' = Err(IntegerDecodeError(Top.index))]_vars

\* after Integer(-190), an eight-byte positive tag with nothing after it
C14_Witness ==
  /\ Ended
  /\ left.buffer = <<19, 65, 28>>
  /\ Len(stack) = 1 /\ Top.index = 2 /\ Len(Top.segments) = 1
  /\ out = Err(IntegerDecodeError(2))

\* C15: for every input that decodes successfully, an integer segment whose
\* tag is in 0x0C..0x13 is a negative integer, one whose tag is in 0x15..0x1C
\* is a positive integer, and only tag 0x14 gives 0, whatever the payload
\* (stated here of the segment whose tag is the first byte of the input).
C15_TagSign ==
  (Ended /\ out.kind = "Ok" /\ left.buffer # <<>>) =>
    LET tag == At(left.buffer, 0)
        value == out.segments[1][2]
    IN  /\ (tag >= INT_NEG_MIN_CODE /\ tag <= INT_NEG_MAX_CODE) =>
             I64Less(value, I64_ZERO)
        /\ (tag >= INT_POS_MIN_CODE /\ tag <= INT_POS_MAX_CODE) =>
             I64Less(I64_ZERO, value)
        /\ (out.segments[1][1] = "Integer" /\ value = I64_ZERO) =>
             tag = INT_ZERO_CODE

\* payload[i..] holds a 0x00 that is not followed by 0xFF
RECURSIVE TerminatorFrom(_, _)
TerminatorFrom(payload, i) ==
  IF i >= Len(payload) THEN FALSE
  ELSE IF At(payload, i) # NULL THEN TerminatorFrom(payload, i + 1)
  ELSE IF i + 1 < Len(payload) /\ At(payload, i + 1) = NULL_ESCAPE
    THEN TerminatorFrom(payload, i + 2)
  ELSE TRUE

\* C16: for every input in which a bytes tag or a string tag is followed by
\* payload bytes that hold no unescaped 0x00 terminator before the end of the
\* input, decode does not return Ok (stated here of a tag that is the first
\* byte of the input).
C16_Unterminated ==
  (/\ Ended
   /\ left.buffer # <<>>
   /\ At(left.buffer, 0) \in {BYTES_CODE, STRING_CODE}
   /\ ~TerminatorFrom(SliceFrom(left.buffer, 1), 0))
    => out.kind # "Ok"

\* the decode has returned to its caller, with Ok or with a TupleError
Returned == out.kind \in {"Ok", "Err"}

\* the step is a return of the innermost activation: of the whole decode, or
\* to the NESTED_CODE arm of its caller, which then moves its index on
ReturnStep ==
  \/ Returned'
  \/ /\ Len(stack') = Len(stack) - 1
     /\ stack'[Len(stack')].index >= stack[Len(stack')].index + 1

\* the step adds at least 1 to the index of the innermost activation
AdvanceStep ==
  /\ Len(stack') = Len(stack)
  /\ stack'[Len(stack)].index >= Top.index + 1

\* the step is a recursive call on a strictly shorter slice
CallStep ==
  /\ Len(stack') = Len(stack) + 1
  /\ Len(stack'[Len(stack')].input) < Len(Top.input)

\* C17: each iteration of the decode_segments loop either returns or adds at
\* least 1 to the read index, each recursive call for a nested region is made
\* on a strictly shorter slice, the recursion depth is bounded by the input
\* length, and so a decode that ends has returned (Ok or a TupleError).
C17_Terminates ==
  /\ [](/\ stack # <<>> => Len(stack) - 1 <= Len(left.buffer)
        /\ Ended => Returned)
  /\ [][Decoding => (ReturnStep \/ AdvanceStep \/ CallStep)]_vars

====
